---- MODULE Spec2Model ----
(***************************************************************************)
(* Vocabulary index of the n-gram language model (lm/vocab.hh) and the     *)
(* FastSparseVector utility (utils/fast_sparse_vector.h).                  *)
(*                                                                         *)
(* The header of the vocabulary is part of the sources; the bodies of      *)
(* SetupMemory, Insert, FinishedLoading, LoadedBinary, the hash, the       *)
(* sorted-uniform search and the probing table live in files that are not, *)
(* and are modelled from the specification's description of them.          *)
(***************************************************************************)
EXTENDS Integers, Sequences, FiniteSets, TLC

\* ------------------------------------------------------------------ bounds
\* largest entry count a caller passes to SetupMemory
MaxEntries == 5
\* stands for std::numeric_limits<uint64_t>::max(), the upper search bound
MaxHash == 16
\* template parameter LOCAL_MAX of FastSparseVector, scaled down
LOCAL_MAX == 2
\* keys and values fed to the sparse vector
MaxKey == 3
MaxVal == 2
\* longest string handed to UrlEncodeString
MaxStrLen == 3

\* stands for std::numeric_limits<WordIndex>::max(), the "UINT_MAX" of
\* ProbingVocabulary::Bound, above every ID the model assigns
WordIndexMax == 255

\* the word strings the model inserts and queries
Words == {"<unk>", "<s>", "</s>", "the", "cat"}

VARIABLES
  vocab,          \* the vocabulary under construction (Sorted or Probing)
  phase,          \* "init" | "loading" | "finished"
  inserted,       \* history: <<[str, id]>> of the Insert calls, in call order
  reorder_vocab,  \* the caller's ProbBackoff array handed to FinishedLoading
  loaded,         \* the structure rebuilt by LoadedBinary ([kind |-> "none"] before)
  thrown,         \* what CheckSpecials raised on vocab ("unchecked" before the call)
  local,          \* FastSparseVector: data_.local
  local_size_,    \* FastSparseVector: local_size_
  is_remote_,     \* FastSparseVector: is_remote_
  rbmap,          \* FastSparseVector: *data_.rbmap (a set of keys with values)
  last,           \* history: the erase call just made, with what was observed before it
  ref,            \* history: a std::map<int, T> given the same calls, kept up to the first erase
  erased,         \* history: erase has been called since construction or clear()
  decoded,        \* the std::string handed to UrlEncodeString, as byte values
  encoded,        \* what UrlEncodeString returned
  result,         \* what UrlDecodeString returned for encoded
  url_pc          \* "start" | "encoded" | "decoded"

vocabVars == <<vocab, phase, inserted, reorder_vocab, loaded, thrown>>
fsvVars == <<local, local_size_, is_remote_, rbmap, last, ref, erased>>
urlVars == <<decoded, encoded, result, url_pc>>
vars == <<vocab, phase, inserted, reorder_vocab, loaded, thrown,
          local, local_size_, is_remote_, rbmap, last, ref, erased,
          decoded, encoded, result, url_pc>>

\* ------------------------------------------------------------ small helpers
Max(a, b) == IF a >= b THEN a ELSE b

RemoveAt(s, i) == SubSeq(s, 1, i - 1) \o SubSeq(s, i + 1, Len(s))

NoDuplicates(s) == \A i, j \in DOMAIN s : i # j => s[i].str # s[j].str

\* the strings passed to Insert so far
InsertedStrings == {inserted[i].str : i \in DOMAIN inserted}

\* ------------------------------------------------------------- VocabHash
\* detail::HashForVocab: a fixed, deterministic function of the string.
\* Distinct on the modelled words; the values are in no relation to the
\* order of the words.
HashForVocab(str) ==
  CASE str = "<unk>" -> 9
    [] str = "<s>"   -> 3
    [] str = "</s>"  -> 14
    [] str = "the"   -> 4
    [] str = "cat"   -> 11

\* ------------------------------------------------------ base::Vocabulary
NotFound(v) == v.not_found_
BeginSentence(v) == v.begin_sentence_
EndSentence(v) == v.end_sentence_

SetSpecial(v, begin_sentence, end_sentence, not_found) ==
  [v EXCEPT !.begin_sentence_ = begin_sentence,
            !.end_sentence_ = end_sentence,
            !.not_found_ = not_found]

\* ------------------------------------------------------ SortedVocabulary
\* index into mem of the first key; mem[begin_ - 1] is the size slot
begin_ == 2

\* words of memory for `entries` keys: the size slot and the keys
SortedSize(entries) == 1 + entries

\* util::Pivot64::Calc
Pivot64(off, range, width) ==
  LET ret == (off * width) \div (IF range = 0 THEN 1 ELSE range)
  IN IF ret < width THEN ret ELSE width - 1

\* util::BoundedSortedUniformFind over mem
RECURSIVE BoundedSortedUniformFind(_, _, _, _, _, _)
BoundedSortedUniformFind(mem, before_it, before_v, after_it, after_v, key) ==
  IF after_it - before_it > 1
  THEN LET pivot == before_it + 1 + Pivot64(key - before_v, after_v - before_v,
                                             after_it - before_it - 1)
           mid == mem[pivot]
       IN IF mid < key
          THEN BoundedSortedUniformFind(mem, pivot, mid, after_it, after_v, key)
          ELSE IF mid > key
          THEN BoundedSortedUniformFind(mem, before_it, before_v, pivot, mid, key)
          ELSE [found |-> TRUE, out |-> pivot]
  ELSE [found |-> FALSE, out |-> 0]

SortedIndexOff(v, str) ==
  LET r == BoundedSortedUniformFind(v.mem, begin_ - 1, 0, v.end_, MaxHash,
                                    HashForVocab(str))
  IN IF r.found THEN r.out - begin_ ELSE 0

SortedIndex(v, str) ==
  LET r == BoundedSortedUniformFind(v.mem, begin_ - 1, 0, v.end_, MaxHash,
                                    HashForVocab(str))
  IN IF r.found THEN r.out - begin_ + 1 ELSE 0

SortedBoundHighest(v) == v.end_ - begin_

SortedBound(v) == v.bound_

\* util::JointSort: the orders an unstable sort by key can leave the
\* <<key, value>> pairs in
RECURSIVE JointSort(_)
JointSort(pairs) ==
  IF pairs = <<>> THEN {<<>>}
  ELSE LET least == CHOOSE k \in {pairs[i][1] : i \in DOMAIN pairs} :
                       \A i \in DOMAIN pairs : k <= pairs[i][1]
       IN UNION {{<<pairs[i]>> \o r : r \in JointSort(RemoveAt(pairs, i))} :
                 i \in {j \in DOMAIN pairs : pairs[j][1] = least}}

\* ----------------------------------------------------- ProbingVocabulary
\* buckets of util::ProbingHashTable for `entries` keys at multiplier 1.5
ProbingSize(entries) == Max(entries + 1, (3 * entries) \div 2)

Buckets(lookup) == Cardinality(DOMAIN lookup)

\* util::ProbingHashTable::Insert: the slot the entry goes to
RECURSIVE ProbeEmpty(_, _)
ProbeEmpty(lookup, i) ==
  IF lookup[i].key = 0 THEN i
  ELSE ProbeEmpty(lookup, IF i + 1 = Buckets(lookup) THEN 0 ELSE i + 1)

TableInsert(lookup, key, value) ==
  [lookup EXCEPT ![ProbeEmpty(lookup, key % Buckets(lookup))] =
                    [key |-> key, value |-> value]]

\* util::ProbingHashTable::Find
RECURSIVE ProbeFind(_, _, _)
ProbeFind(lookup, key, i) ==
  IF lookup[i].key = key THEN [found |-> TRUE, value |-> lookup[i].value]
  ELSE IF lookup[i].key = 0 THEN [found |-> FALSE, value |-> 0]
  ELSE ProbeFind(lookup, key, IF i + 1 = Buckets(lookup) THEN 0 ELSE i + 1)

TableFind(lookup, key) == ProbeFind(lookup, key, key % Buckets(lookup))

ProbingIndexAnyKey(v, str) ==
  v.lookup_[HashForVocab(str) % Buckets(v.lookup_)].value

ProbingIndexFirstSlot(v, str) ==
  LET i == v.lookup_[HashForVocab(str) % Buckets(v.lookup_)]
  IN IF i.key = HashForVocab(str) THEN i.value ELSE 0

ProbingIndex(v, str) ==
  LET i == TableFind(v.lookup_, HashForVocab(str))
  IN IF i.found THEN i.value ELSE 0

ProbingBoundCount(v) ==
  Cardinality({i \in DOMAIN v.lookup_ : v.lookup_[i].key # 0}) + 1

ProbingBound(v) == v.available_

\* --------------------------------------------- the shared Vocab contract
Index(v, str) ==
  IF v.kind = "sorted" THEN SortedIndex(v, str) ELSE ProbingIndex(v, str)

Bound(v) ==
  IF v.kind = "sorted" THEN SortedBound(v) ELSE ProbingBound(v)

SawUnkInverted(v) == ~v.saw_unk_

SawUnk(v) == v.saw_unk_

CheckSpecialsNoBegin(v) ==
  IF ~SawUnk(v) THEN "MissingUnknown"
  ELSE IF EndSentence(v) = NotFound(v) THEN "MissingSentenceMarker </s>"
  ELSE "none"

\* CheckSpecials: the exception that leaves the call, "none" when it returns
CheckSpecials(v) ==
  IF ~SawUnk(v) THEN "MissingUnknown"
  ELSE IF BeginSentence(v) = NotFound(v) THEN "MissingSentenceMarker <s>"
  ELSE IF EndSentence(v) = NotFound(v) THEN "MissingSentenceMarker </s>"
  ELSE "none"

\* ------------------------------------------------------------------ Init
NoVocab == [kind |-> "none"]

VocabInit ==
  /\ vocab = NoVocab
  /\ phase = "init"
  /\ inserted = <<>>
  /\ reorder_vocab = [i \in 0..MaxEntries |-> 0]
  /\ loaded = NoVocab
  /\ thrown = "unchecked"

\* --------------------------------------------- SortedVocabulary, building
SortedSetupMemory(entries) ==
  /\ phase = "init"
  /\ vocab' = [kind |-> "sorted", entries |-> entries,
               mem |-> [i \in 1..SortedSize(entries) |-> 0],
               end_ |-> begin_, bound_ |-> 0, saw_unk_ |-> FALSE,
               enumerate_ |-> FALSE,
               begin_sentence_ |-> 0, end_sentence_ |-> 0, not_found_ |-> 0]
  /\ phase' = "loading"
  /\ UNCHANGED <<inserted, reorder_vocab, loaded, thrown>>

\* the caller stores the record of the word under the ID Insert returned
StoreRecord(id) == [reorder_vocab EXCEPT ![id] = id]

SortedInsert(str) ==
  /\ phase = "loading"
  /\ vocab.kind = "sorted"
  /\ vocab.end_ - begin_ < vocab.entries
  /\ LET id == vocab.end_ + 1 - begin_
     IN /\ vocab' = [vocab EXCEPT !.mem[vocab.end_] = HashForVocab(str),
                                  !.end_ = vocab.end_ + 1,
                                  !.saw_unk_ = vocab.saw_unk_ \/ str = "<unk>"]
        /\ inserted' = Append(inserted, [str |-> str, id |-> id])
        /\ reorder_vocab' = StoreRecord(id)
  /\ UNCHANGED <<phase, loaded, thrown>>

\* the <<key, record>> pairs FinishedLoading sorts: the keys of
\* [begin_, end_) with reorder_vocab + 1
SortedPairs(v, reorder) ==
  [i \in 1..(v.end_ - begin_) |-> <<v.mem[begin_ + i - 1], reorder[i]>>]

SortedFinishedLoadingKeysOnly(r) ==
  LET n == vocab.end_ - begin_
      sorted == [vocab EXCEPT
                   !.mem = [i \in DOMAIN vocab.mem |->
                              IF i = begin_ - 1 THEN n
                              ELSE IF i < vocab.end_ THEN r[i - begin_ + 1][1]
                              ELSE vocab.mem[i]],
                   !.bound_ = n + 1]
  IN /\ vocab' = SetSpecial(sorted, SortedIndex(sorted, "<s>"),
                            SortedIndex(sorted, "</s>"), 0)
     /\ reorder_vocab' = reorder_vocab

SortedFinishedLoadingWith(r) ==
  LET n == vocab.end_ - begin_
      sorted == [vocab EXCEPT
                   !.mem = [i \in DOMAIN vocab.mem |->
                              IF i = begin_ - 1 THEN n
                              ELSE IF i < vocab.end_ THEN r[i - begin_ + 1][1]
                              ELSE vocab.mem[i]],
                   !.bound_ = n + 1]
  IN /\ vocab' = SetSpecial(sorted, SortedIndex(sorted, "<s>"),
                            SortedIndex(sorted, "</s>"), 0)
     /\ reorder_vocab' = [i \in DOMAIN reorder_vocab |->
                            IF i \in 1..n THEN r[i][2] ELSE reorder_vocab[i]]

SortedFinishedLoading ==
  /\ phase = "loading"
  /\ vocab.kind = "sorted"
  /\ \E r \in JointSort(SortedPairs(vocab, reorder_vocab)) :
       SortedFinishedLoadingWith(r)
  /\ phase' = "finished"
  /\ UNCHANGED <<inserted, loaded, thrown>>

\* -------------------------------------------- ProbingVocabulary, building
ProbingSetupMemory(entries) ==
  /\ phase = "init"
  /\ vocab' = [kind |-> "probing", entries |-> entries,
               lookup_ |-> [i \in 0..(ProbingSize(entries) - 1) |->
                              [key |-> 0, value |-> 0]],
               available_ |-> 1, saw_unk_ |-> FALSE, enumerate_ |-> FALSE,
               begin_sentence_ |-> 0, end_sentence_ |-> 0, not_found_ |-> 0]
  /\ phase' = "loading"
  /\ UNCHANGED <<inserted, reorder_vocab, loaded, thrown>>

ProbingInsert(str) ==
  /\ phase = "loading"
  /\ vocab.kind = "probing"
  /\ vocab.available_ - 1 < vocab.entries
  /\ LET id == vocab.available_
     IN /\ vocab' = [vocab EXCEPT
                       !.lookup_ = TableInsert(vocab.lookup_, HashForVocab(str), id),
                       !.available_ = vocab.available_ + 1,
                       !.saw_unk_ = vocab.saw_unk_ \/ str = "<unk>"]
        /\ inserted' = Append(inserted, [str |-> str, id |-> id])
        /\ reorder_vocab' = StoreRecord(id)
  /\ UNCHANGED <<phase, loaded, thrown>>

ProbingFinishedLoading ==
  /\ phase = "loading"
  /\ vocab.kind = "probing"
  /\ vocab' = SetSpecial(vocab, ProbingIndex(vocab, "<s>"),
                         ProbingIndex(vocab, "</s>"), 0)
  /\ phase' = "finished"
  /\ UNCHANGED <<inserted, reorder_vocab, loaded, thrown>>

\* ------------------------------------------------------- binary reload
\* ReadWords: replays the stored strings to the sink and returns the bound
ReadWords(to) == IF to THEN Len(inserted) + 1 ELSE WordIndexMax

SortedLoadedBinaryNoSize(to) ==
  /\ phase = "finished"
  /\ vocab.kind = "sorted"
  /\ loaded = NoVocab
  /\ \E unk \in BOOLEAN :
       LET region == SubSeq(vocab.mem, 1, SortedSize(vocab.entries))
           end == begin_ + vocab.entries - 1
           fresh == [kind |-> "sorted", entries |-> vocab.entries,
                     mem |-> region, end_ |-> end, bound_ |-> end - begin_ + 1,
                     saw_unk_ |-> unk, enumerate_ |-> to,
                     begin_sentence_ |-> 0, end_sentence_ |-> 0, not_found_ |-> 0]
       IN loaded' = SetSpecial(fresh, SortedIndex(fresh, "<s>"),
                               SortedIndex(fresh, "</s>"), 0)
  /\ UNCHANGED <<vocab, phase, inserted, reorder_vocab, thrown>>

SortedLoadedBinary(to) ==
  /\ phase = "finished"
  /\ vocab.kind = "sorted"
  /\ loaded = NoVocab
  /\ \E unk \in BOOLEAN :
       LET region == SubSeq(vocab.mem, 1, SortedSize(vocab.entries))
           end == begin_ + region[begin_ - 1]
           fresh == [kind |-> "sorted", entries |-> vocab.entries,
                     mem |-> region, end_ |-> end, bound_ |-> end - begin_ + 1,
                     saw_unk_ |-> unk, enumerate_ |-> to,
                     begin_sentence_ |-> 0, end_sentence_ |-> 0, not_found_ |-> 0]
       IN loaded' = SetSpecial(fresh, SortedIndex(fresh, "<s>"),
                               SortedIndex(fresh, "</s>"), 0)
  /\ UNCHANGED <<vocab, phase, inserted, reorder_vocab, thrown>>

ProbingLoadedBinary(to) ==
  /\ phase = "finished"
  /\ vocab.kind = "probing"
  /\ loaded = NoVocab
  /\ \E unk \in BOOLEAN :
       LET fresh == [kind |-> "probing", entries |-> vocab.entries,
                     lookup_ |-> vocab.lookup_, available_ |-> ReadWords(to),
                     saw_unk_ |-> unk, enumerate_ |-> to,
                     begin_sentence_ |-> 0, end_sentence_ |-> 0, not_found_ |-> 0]
       IN loaded' = SetSpecial(fresh, ProbingIndex(fresh, "<s>"),
                               ProbingIndex(fresh, "</s>"), 0)
  /\ UNCHANGED <<vocab, phase, inserted, reorder_vocab, thrown>>

\* ------------------------------------------------- special-token validator
RunCheckSpecials ==
  /\ phase = "finished"
  /\ thrown = "unchecked"
  /\ thrown' = CheckSpecials(vocab)
  /\ UNCHANGED <<vocab, phase, inserted, reorder_vocab, loaded>>

\* ------------------------------------------------------ FastSparseVector
Keys == 1..MaxKey
Vals == 0..MaxVal

\* the object as one value: data_.local, local_size_, is_remote_, *data_.rbmap
This == [local |-> local, local_size_ |-> local_size_,
         is_remote_ |-> is_remote_, rbmap |-> rbmap]

\* T value(int k) const
value(f, k) ==
  IF f.is_remote_
  THEN IF k \in DOMAIN f.rbmap THEN f.rbmap[k] ELSE 0
  ELSE LET hits == {i \in 0..(f.local_size_ - 1) : f.local[i].first = k}
       IN IF hits = {} THEN 0
          ELSE f.local[CHOOSE i \in hits : \A j \in hits : i <= j].second

\* size_t size() const
size(f) ==
  IF f.is_remote_ THEN Cardinality(DOMAIN f.rbmap) ELSE f.local_size_

\* the inner loop of erase: local[j-1] = local[j] for j in i+1 .. local_size_-1
ShiftDown(loc, n, i) ==
  [j \in DOMAIN loc |-> IF j >= i /\ j + 1 < n THEN loc[j + 1] ELSE loc[j]]

\* the outer loop of erase, from index i on
RECURSIVE EraseLoop(_, _, _, _)
EraseLoop(loc, n, k, i) ==
  IF i >= n THEN loc
  ELSE IF loc[i].first = k THEN EraseLoop(ShiftDown(loc, n, i), n, k, i + 1)
  ELSE EraseLoop(loc, n, k, i + 1)

\* void erase(int k)
erase_(f, k) ==
  IF f.is_remote_
  THEN [f EXCEPT !.rbmap = [j \in DOMAIN f.rbmap \ {k} |-> f.rbmap[j]]]
  ELSE [f EXCEPT !.local = EraseLoop(f.local, f.local_size_, k, 0)]

\* data_.local while the union holds the rbmap pointer instead, and at
\* construction (memset 0)
NoLocal == [i \in 0..(LOCAL_MAX - 1) |-> [first |-> 0, second |-> 0]]

\* void swap_local_rbmap(): std::map built from a range keeps the first of
\* equal keys
swap_local_rbmap(f) ==
  IF f.is_remote_
  THEN LET ks == DOMAIN f.rbmap
           Rank(k) == Cardinality({j \in ks : j < k})
       IN [f EXCEPT !.local_size_ = Cardinality(ks),
                    !.local = [i \in DOMAIN f.local |->
                                 IF \E k \in ks : Rank(k) = i
                                 THEN LET k == CHOOSE k \in ks : Rank(k) = i
                                      IN [first |-> k, second |-> f.rbmap[k]]
                                 ELSE f.local[i]],
                    !.is_remote_ = FALSE]
  ELSE [f EXCEPT !.rbmap = [k \in {f.local[i].first : i \in 0..(f.local_size_ - 1)}
                              |-> value(f, k)],
                 !.local = NoLocal,
                 !.is_remote_ = TRUE]

get_or_create_binNoInit(f, k) ==
  IF f.is_remote_
  THEN IF k \in DOMAIN f.rbmap THEN f
       ELSE [f EXCEPT !.rbmap = [j \in DOMAIN f.rbmap \cup {k} |->
                                   IF j = k THEN 0 ELSE f.rbmap[j]]]
  ELSE IF \E i \in 0..(f.local_size_ - 1) : f.local[i].first = k THEN f
  ELSE IF f.local_size_ < LOCAL_MAX
  THEN [f EXCEPT !.local[f.local_size_].first = k,
                 !.local_size_ = f.local_size_ + 1]
  ELSE LET g == swap_local_rbmap(f)
       IN [g EXCEPT !.rbmap = [j \in DOMAIN g.rbmap \cup {k} |->
                                 IF j \in DOMAIN g.rbmap THEN g.rbmap[j] ELSE 0]]

\* T& get_or_create_bin(int k): the object once the bin of k exists
get_or_create_bin(f, k) ==
  IF f.is_remote_
  THEN IF k \in DOMAIN f.rbmap THEN f
       ELSE [f EXCEPT !.rbmap = [j \in DOMAIN f.rbmap \cup {k} |->
                                   IF j = k THEN 0 ELSE f.rbmap[j]]]
  ELSE IF \E i \in 0..(f.local_size_ - 1) : f.local[i].first = k THEN f
  ELSE IF f.local_size_ < LOCAL_MAX
  THEN [f EXCEPT !.local[f.local_size_] = [first |-> k, second |-> 0],
                 !.local_size_ = f.local_size_ + 1]
  ELSE LET g == swap_local_rbmap(f)
       IN [g EXCEPT !.rbmap = [j \in DOMAIN g.rbmap \cup {k} |->
                                 IF j \in DOMAIN g.rbmap THEN g.rbmap[j] ELSE 0]]

\* assignment through the reference get_or_create_bin returned
StoreBin(f, k, v) ==
  IF f.is_remote_
  THEN [f EXCEPT !.rbmap[k] = v]
  ELSE LET hits == {i \in 0..(f.local_size_ - 1) : f.local[i].first = k}
       IN [f EXCEPT !.local[CHOOSE i \in hits : \A j \in hits : i <= j].second = v]

\* what a caller could observe of the vector before the call
Observed(op, k) ==
  [op |-> op, k |-> k, size |-> size(This),
   value |-> [j \in Keys |-> value(This, j)],
   remote |-> is_remote_]

NoCall ==
  [op |-> "none", k |-> 0, size |-> 0, value |-> [j \in Keys |-> 0],
   remote |-> FALSE]

Becomes(f) ==
  /\ local' = f.local
  /\ local_size_' = f.local_size_
  /\ is_remote_' = f.is_remote_
  /\ rbmap' = f.rbmap

\* std::map<int, T>: m[k] = v, m[k] += v, m.erase(k)
MapStore(m, k, v) ==
  [j \in DOMAIN m \cup {k} |-> IF j = k THEN v ELSE m[j]]

MapValue(m, k) == IF k \in DOMAIN m THEN m[k] ELSE 0

\* the reference map is followed while no erase has been called
Tracked(m) == IF erased THEN ref ELSE m

set_value(k, v) ==
  /\ Becomes(StoreBin(get_or_create_bin(This, k), k, v))
  /\ last' = NoCall
  /\ ref' = Tracked(MapStore(ref, k, v))
  /\ erased' = erased

add_value(k, v) ==
  /\ value(This, k) + v <= MaxVal
  /\ LET g == get_or_create_bin(This, k)
     IN Becomes(StoreBin(g, k, value(g, k) + v))
  /\ last' = NoCall
  /\ ref' = Tracked(MapStore(ref, k, MapValue(ref, k) + v))
  /\ erased' = erased

erase(k) ==
  /\ Becomes(erase_(This, k))
  /\ last' = Observed("erase", k)
  /\ ref' = <<>>
  /\ erased' = TRUE

clear ==
  /\ Becomes([This EXCEPT !.rbmap = <<>>, !.is_remote_ = FALSE,
                          !.local_size_ = 0])
  /\ last' = NoCall
  /\ ref' = <<>>
  /\ erased' = FALSE

FsvInit ==
  /\ local = NoLocal
  /\ local_size_ = 0
  /\ is_remote_ = FALSE
  /\ rbmap = <<>>
  /\ last = NoCall
  /\ ref = <<>>
  /\ erased = FALSE

\* ------------------------------------------------- UrlEncode / UrlDecode
\* the bytes ' ' % + , 2 : ; = _ a |
UrlChars == {32, 37, 43, 44, 50, 58, 59, 61, 95, 97, 124}

UrlStrings == UNION {[1..n -> UrlChars] : n \in 0..MaxStrLen}

\* s.c_str() read as a C string: the bytes before the first NUL
CStr(s) ==
  IF \E i \in DOMAIN s : s[i] = 0
  THEN SubSeq(s, 1, (CHOOSE i \in DOMAIN s :
                       s[i] = 0 /\ \A j \in DOMAIN s : s[j] = 0 => i <= j) - 1)
  ELSE s

\* source[i] of a NUL-terminated string (i from 1)
CharAt(s, i) == IF i \in DOMAIN s THEN s[i] ELSE 0

\* the value HexPairValue adds for one digit, -1 where it returns -1
HexDigit(digit) ==
  IF digit >= 48 /\ digit <= 57 THEN digit - 48
  ELSE IF digit >= 65 /\ digit <= 70 THEN digit - 65 + 10
  ELSE IF digit >= 97 /\ digit <= 102 THEN digit - 97 + 10
  ELSE -1

\* static int HexPairValue(const char * code), code = <<first, second>>
HexPairValue(first, second) ==
  IF HexDigit(first) = -1 THEN -1
  ELSE IF HexDigit(second) = -1 THEN -1
  ELSE HexDigit(first) * 16 + HexDigit(second)

\* the while loop of UrlDecode from source[i] on; dest is what was written
RECURSIVE UrlDecodeLoop(_, _, _)
UrlDecodeLoop(source, i, dest) ==
  IF CharAt(source, i) = 0 THEN dest
  ELSE IF CharAt(source, i) = 43 THEN UrlDecodeLoop(source, i + 1, Append(dest, 32))
  ELSE IF CharAt(source, i) = 37
  THEN IF CharAt(source, i + 1) # 0 /\ CharAt(source, i + 2) # 0
       THEN LET v == HexPairValue(CharAt(source, i + 1), CharAt(source, i + 2))
            IN IF v >= 0
               THEN UrlDecodeLoop(source, i + 3, Append(dest, v % 256))
               ELSE UrlDecodeLoop(source, i + 1, Append(dest, 63))
       ELSE UrlDecodeLoop(source, i + 1, Append(dest, 63))
  ELSE UrlDecodeLoop(source, i + 1, Append(dest, CharAt(source, i)))

\* int UrlDecode(const char *source, char *dest): the bytes left in dest
UrlDecode(source) == UrlDecodeLoop(source, 1, <<>>)

\* "0123456789ABCDEF"
digits == <<48, 49, 50, 51, 52, 53, 54, 55, 56, 57, 65, 66, 67, 68, 69, 70>>

\* strchr("=:;,_| %", ch) != NULL; the terminator matches ch = 0
InEscapeSet(ch) == ch \in {61, 58, 59, 44, 95, 124, 32, 37, 0}

\* len < max - 4 in unsigned arithmetic: max - 4 wraps to 2^32 - (4 - max)
\* for max < 4
BelowMaxMinus4(len, max) == IF max >= 4 THEN len < max - 4 ELSE TRUE

\* the while loop of UrlEncode from source[i] on; len is never advanced
RECURSIVE UrlEncodeLoop(_, _, _, _, _)
UrlEncodeLoop(source, i, dest, len, max) ==
  IF BelowMaxMinus4(len, max) /\ CharAt(source, i) # 0
  THEN LET ch == CharAt(source, i)
       IN IF ch = 32 THEN UrlEncodeLoop(source, i + 1, Append(dest, 43), len, max)
          ELSE IF InEscapeSet(ch)
          THEN UrlEncodeLoop(source, i + 1,
                             dest \o <<37, digits[((ch \div 16) % 16) + 1],
                                       digits[(ch % 16) + 1]>>,
                             len, max)
          ELSE UrlEncodeLoop(source, i + 1, Append(dest, ch), len, max)
  ELSE dest

\* int UrlEncode(const char *source, char *dest, unsigned max): the bytes
\* left in dest
UrlEncode(source, max) == UrlEncodeLoop(source, 1, <<>>, 0, max)

\* std::string UrlDecodeString(const std::string & encoded)
UrlDecodeString(str) == CStr(UrlDecode(CStr(str)))

\* std::string UrlEncodeString(const std::string & decoded)
UrlEncodeString(str) == CStr(UrlEncode(CStr(str), Len(str) * 3 + 3))

\* FD::Escape(s)
CallUrlEncodeString ==
  /\ url_pc = "start"
  /\ encoded' = UrlEncodeString(decoded)
  /\ url_pc' = "encoded"
  /\ UNCHANGED <<decoded, result>>

CallUrlDecodeString ==
  /\ url_pc = "encoded"
  /\ result' = UrlDecodeString(encoded)
  /\ url_pc' = "decoded"
  /\ UNCHANGED <<decoded, encoded>>

\* no string is being converted
UrlIdle ==
  /\ decoded = <<>>
  /\ encoded = <<>>
  /\ result = <<>>
  /\ url_pc = "start"

\* a string to convert has been chosen
UrlInput ==
  /\ decoded \in UrlStrings
  /\ encoded = <<>>
  /\ result = <<>>
  /\ url_pc = "start"

Init == VocabInit /\ FsvInit /\ UrlIdle

Next ==
  /\ \/ \E entries \in 1..MaxEntries : SortedSetupMemory(entries)
     \/ \E entries \in 1..MaxEntries : ProbingSetupMemory(entries)
     \/ \E str \in Words : SortedInsert(str)
     \/ \E str \in Words : ProbingInsert(str)
     \/ SortedFinishedLoading
     \/ ProbingFinishedLoading
     \/ \E to \in BOOLEAN : SortedLoadedBinary(to)
     \/ \E to \in BOOLEAN : ProbingLoadedBinary(to)
     \/ RunCheckSpecials
  /\ UNCHANGED fsvVars
  /\ UNCHANGED urlVars

Spec == Init /\ [][Next]_vars

NextFSV ==
  /\ \/ \E k \in Keys, v \in Vals : set_value(k, v)
     \/ \E k \in Keys, v \in Vals : add_value(k, v)
     \/ \E k \in Keys : erase(k)
     \/ clear
  /\ UNCHANGED vocabVars
  /\ UNCHANGED urlVars

SpecFSV == Init /\ [][NextFSV]_vars

InitUrl == VocabInit /\ FsvInit /\ UrlInput

NextUrl ==
  /\ \/ CallUrlEncodeString
     \/ CallUrlDecodeString
  /\ UNCHANGED vocabVars
  /\ UNCHANGED fsvVars

SpecUrl == InitUrl /\ [][NextUrl]_vars

\* ================================================================= claims
Finalized == phase = "finished"

DistinctInserts == NoDuplicates(inserted)

\* position of str among the inserted strings in hash order, from 1
HashRank(str) ==
  1 + Cardinality({w \in InsertedStrings : HashForVocab(w) < HashForVocab(str)})

C2_AbsentIsZero ==
  Finalized =>
    \A str \in Words \ InsertedStrings :
      /\ Index(vocab, str) = 0
      /\ loaded # NoVocab => Index(loaded, str) = 0

C2_Witness ==
  /\ Finalized /\ Len(inserted) >= 3 /\ loaded # NoVocab
  /\ \E str \in Words \ InsertedStrings :
       /\ Index(vocab, str) = 0
       /\ vocab.kind = "probing" =>
            vocab.lookup_[HashForVocab(str) % Buckets(vocab.lookup_)].key # 0

\* C3: built from words with <unk> and </s> but without <s>, CheckSpecials
\* raises the begin-sentence-marker error and nothing else.
C3_MissingBeginSentence ==
  (thrown # "unchecked" /\ "<unk>" \in InsertedStrings
     /\ "</s>" \in InsertedStrings /\ "<s>" \notin InsertedStrings) =>
    thrown = "MissingSentenceMarker <s>"

C3_Witness ==
  /\ thrown = "MissingSentenceMarker <s>"
  /\ "<unk>" \in InsertedStrings /\ "</s>" \in InsertedStrings
  /\ "<s>" \notin InsertedStrings /\ "the" \in InsertedStrings

TheFiveWords == <<"<unk>", "<s>", "</s>", "the", "cat">>

C4_Scenario ==
  /\ vocab.kind = "sorted"
  /\ Len(inserted) = 5
  /\ \A i \in 1..5 : inserted[i].str = TheFiveWords[i]

C6_ReorderFollowsSort ==
  (Finalized /\ vocab.kind = "sorted" /\ DistinctInserts) =>
    \A i \in DOMAIN inserted :
      reorder_vocab[SortedIndex(vocab, inserted[i].str)] = inserted[i].id

C6_Witness ==
  /\ Finalized /\ vocab.kind = "sorted" /\ DistinctInserts
  /\ Len(inserted) >= 4
  /\ \A i \in DOMAIN inserted : reorder_vocab[i] # i

\* one past the highest ID Insert has returned
OnePastHighest == Len(inserted) + 1

\* C7: ProbingVocabulary::Bound() is the maximum WordIndex after LoadedBinary
\* without a sink, and one past the highest assigned ID after FinishedLoading
\* and after LoadedBinary with a sink.
C7_ProbingBound ==
  /\ (Finalized /\ vocab.kind = "probing") => ProbingBound(vocab) = OnePastHighest
  /\ loaded.kind = "probing" =>
       ProbingBound(loaded) = IF loaded.enumerate_ THEN OnePastHighest
                              ELSE WordIndexMax

C7_Witness ==
  /\ loaded.kind = "probing" /\ ~loaded.enumerate_
  /\ Len(inserted) >= 2
  /\ ProbingBound(loaded) = WordIndexMax
  /\ ProbingBound(vocab) = Len(inserted) + 1

C10_EraseRemoves ==
  (last.op = "erase" /\ last.value[last.k] # 0) =>
    /\ value(This, last.k) = 0
    /\ size(This) = last.size - 1
    /\ \A j \in Keys \ {last.k} : value(This, j) = last.value[j]

\* what value() and size() give agrees with the reference map
AgreesWithRef ==
  /\ \A k \in Keys : value(This, k) = MapValue(ref, k)
  /\ size(This) = Cardinality(DOMAIN ref)

\* C11: after any sequence of set_value and add_value calls since
\* construction or clear(), value(k) is what a std::map<int, T> gives under
\* the same calls and size() is the number of distinct keys touched, also
\* once more than LOCAL_MAX keys have moved the vector to the map; and a
\* remote vector becomes local again by clear() only.
C11_MatchesReferenceMap ==
  /\ [](~erased => AgreesWithRef)
  /\ [][(is_remote_ /\ ~is_remote_') => clear]_vars

C11_Witness ==
  /\ is_remote_ /\ ~erased
  /\ Cardinality(DOMAIN ref) = LOCAL_MAX + 1
  /\ \A k \in DOMAIN ref : ref[k] = MaxVal /\ value(This, k) = MaxVal
  /\ size(This) = LOCAL_MAX + 1

\* C12 (as stated): UrlDecodeString(UrlEncodeString(s)) = s for every
\* string s without NUL bytes, '+', '%', space and the escaped characters
\* included.
C12_RoundTrip ==
  url_pc = "decoded" => result = decoded

====
